---- MODULE Spec2Model ----
(***************************************************************************)
(* State-machine model of the Stewart platform GUI controller              *)
(* (src/GUI/stewart_platform.cpp): the serial connection lifecycle, the    *)
(* command encoder, the manual field/slider bridge and the Leap Motion     *)
(* gating.  Every Qt slot is one action; all slots run to completion on    *)
(* the single GUI event loop.                                              *)
(*                                                                         *)
(* Text is modelled as a sequence of one-character strings; the bytes      *)
(* handed to the serial port are a sequence of 8-bit character codes.      *)
(* The time stamp that log() puts in front of an entry is left out: a log  *)
(* entry is the record of its message kind and arguments.                  *)
(***************************************************************************)
EXTENDS Integers, Sequences, FiniteSets, TLC

\* stewart_platform.h is not part of the sources at hand: the three
\* constants below are taken from the description of the program.
NUM_ACTUATORS == 6
MIN_ACTUATOR_VALUE == 0
MAX_ACTUATOR_VALUE == 1024

\* ---- bounds of the model ----
\* longest log the model follows (handlers that would exceed it are not taken)
MaxLog == 4

\* ---- input sets ----
Channels == 1..NUM_ACTUATORS

\* settings snapshots the dialog can hand over (name, baud rate)
SettingsSet ==
    { [name |-> "COM3", baudRate |-> 9600],
      [name |-> "COM4", baudRate |-> 115200] }

\* values an operator enters in the main specification
ManualValues == {MIN_ACTUATOR_VALUE, MAX_ACTUATOR_VALUE}
\* channels the operator touches in the main specification
ManualChannels == {1, NUM_ACTUATORS}

\* frames the Leap device delivers in the main specification
LeapFrames ==
    { <<1, 2, 3, 4, 5, 6>>,
      <<0, 0, 0, 0, 0, 0>>,
      <<-12, 0, 1025, 7, 100, -3>> }

VARIABLES
    m_serial,            \* QSerialPort: [isOpen, portName, baudRate]
    ui,                  \* widgets: label_serial_val, label_leap_val,
                         \*   button_send, actuatorBox, enable_leap_motion, log
    field,               \* QSpinBox values, one per channel
    slider,              \* QSlider values, one per channel
    actuator_positions,  \* QVector<int> of NUM_ACTUATORS entries
    is_leap_enabled,     \* leap->is_leap_enabled
    crashed,             \* a failed Q_ASSERT or a bad access ended the process
    ui_alive,            \* the Ui::StewartPlatform object has not been deleted
    serial_alive,        \* the QSerialPort object has not been deleted
    uaf,                 \* a handler went through ui after delete ui
    wrote,               \* calls of writeSerialData made by the last handler
    lastEvent,           \* name of the last handler that ran
    lastArg,             \* channel, value and number of valueChanged signals
                         \*   of the last manual change (NoArg otherwise)
    preOpen              \* m_serial.isOpen before the last handler ran

vars == <<m_serial, ui, field, slider, actuator_positions, is_leap_enabled,
          crashed, ui_alive, serial_alive, uaf, wrote, lastEvent, lastArg,
          preOpen>>

\* the part of the state that belongs to the program (no history variables)
progVars == <<m_serial, ui, field, slider, actuator_positions,
              is_leap_enabled, crashed>>

\* ---------------------------------------------------------------------
\* Text and bytes
\* ---------------------------------------------------------------------
DigitChar(d) == <<"0", "1", "2", "3", "4", "5", "6", "7", "8", "9">>[d + 1]

RECURSIVE NatToStr(_)
NatToStr(n) ==
    IF n < 10 THEN <<DigitChar(n)>>
    ELSE NatToStr(n \div 10) \o <<DigitChar(n % 10)>>

\* QString::number(int): decimal, '-' in front of a negative value
QStringNumber(n) ==
    IF n < 0 THEN <<"-">> \o NatToStr(0 - n) ELSE NatToStr(n)

\* code of one character in the local 8-bit encoding (ASCII range)
CharCode(c) ==
    CASE c = " "  -> 32
      [] c = "\n" -> 10
      [] c = "-"  -> 45
      [] c = "0"  -> 48
      [] c = "1"  -> 49
      [] c = "2"  -> 50
      [] c = "3"  -> 51
      [] c = "4"  -> 52
      [] c = "5"  -> 53
      [] c = "6"  -> 54
      [] c = "7"  -> 55
      [] c = "8"  -> 56
      [] c = "9"  -> 57

\* qPrintable(s): s.toLocal8Bit().constData()
qPrintable(s) == [k \in 1..Len(s) |-> CharCode(s[k])]

\* ---------------------------------------------------------------------
\* log
\* ---------------------------------------------------------------------
\* StewartPlatform::log: appendPlainText of the entry
LogAppend(u, entry) == [u EXCEPT !.log = Append(@, entry)]

\* ---------------------------------------------------------------------
\* Serial transport
\* ---------------------------------------------------------------------
\* the serial object and the widgets a serial handler works on
World == [m_serial |-> m_serial, ui |-> ui]

\* closeSerialPort that leaves the send button as it is
closeSerialPort_KeepsButton(w) ==
    IF w.m_serial.isOpen
    THEN LET ser == [w.m_serial EXCEPT !.isOpen = FALSE]
             u1  == LogAppend(w.ui, [kind |-> "Disconnected from",
                                     name |-> ser.portName])
             u2  == [u1 EXCEPT !.label_serial_val = "Disconnected"]
         IN  [m_serial |-> ser, ui |-> u2]
    ELSE w

\* closeSerialPort that updates the widgets but never closes the handle
closeSerialPort_NoClose(w) ==
    IF w.m_serial.isOpen
    THEN LET u1 == LogAppend(w.ui, [kind |-> "Disconnected from",
                                    name |-> w.m_serial.portName])
             u2 == [u1 EXCEPT !.label_serial_val = "Disconnected",
                              !.button_send = FALSE]
         IN  [m_serial |-> w.m_serial, ui |-> u2]
    ELSE w

\* closeSerialPort with the isOpen test the wrong way round
closeSerialPort_InvertedGuard(w) ==
    IF ~w.m_serial.isOpen
    THEN LET ser == [w.m_serial EXCEPT !.isOpen = FALSE]
             u1  == LogAppend(w.ui, [kind |-> "Disconnected from",
                                     name |-> ser.portName])
             u2  == [u1 EXCEPT !.label_serial_val = "Disconnected",
                               !.button_send = FALSE]
         IN  [m_serial |-> ser, ui |-> u2]
    ELSE w

\* closeSerialPort without the isOpen test
closeSerialPort_Unconditional(w) ==
    LET ser == [w.m_serial EXCEPT !.isOpen = FALSE]
        u1  == LogAppend(w.ui, [kind |-> "Disconnected from",
                                name |-> ser.portName])
        u2  == [u1 EXCEPT !.label_serial_val = "Disconnected",
                          !.button_send = FALSE]
    IN  [m_serial |-> ser, ui |-> u2]

\* closeSerialPort that leaves the status label as it is
closeSerialPort_KeepsLabel(w) ==
    IF w.m_serial.isOpen
    THEN LET ser == [w.m_serial EXCEPT !.isOpen = FALSE]
             u1  == LogAppend(w.ui, [kind |-> "Disconnected from",
                                     name |-> ser.portName])
             u2  == [u1 EXCEPT !.button_send = FALSE]
         IN  [m_serial |-> ser, ui |-> u2]
    ELSE w

\* StewartPlatform::closeSerialPort
closeSerialPort(w) ==
    IF w.m_serial.isOpen
    THEN LET ser == [w.m_serial EXCEPT !.isOpen = FALSE]
             u1  == LogAppend(w.ui, [kind |-> "Disconnected from",
                                     name |-> ser.portName])
             u2  == [u1 EXCEPT !.label_serial_val = "Disconnected",
                               !.button_send = FALSE]
         IN  [m_serial |-> ser, ui |-> u2]
    ELSE w

\* QSerialPort::open(ReadWrite): an open port refuses a second open
\* (OpenError); otherwise the device decides (devOk).  A refused open emits
\* errorOccurred, which is connected to closeSerialPort.
SerialOpen(w, devOk) ==
    IF w.m_serial.isOpen
    THEN [ok |-> FALSE, w |-> closeSerialPort(w)]
    ELSE IF devOk
         THEN [ok |-> TRUE,
               w  |-> [w EXCEPT !.m_serial.isOpen = TRUE]]
         ELSE [ok |-> FALSE, w |-> closeSerialPort(w)]

\* openSerialPort that shows the port name before it knows the outcome
openSerialPort_StatusBeforeCheck(w, p, devOk) ==
    LET w1 == closeSerialPort(w)
        w2 == [w1 EXCEPT !.m_serial.portName = p.name,
                         !.m_serial.baudRate = p.baudRate,
                         !.ui.label_serial_val = p.name]
        r  == SerialOpen(w2, devOk)
    IN  IF r.ok
        THEN [r.w EXCEPT
                !.ui = LogAppend(
                         [@ EXCEPT !.button_send = TRUE],
                         [kind |-> "Connected to", name |-> p.name,
                          baudRate |-> p.baudRate])]
        ELSE [r.w EXCEPT
                !.ui = LogAppend(@, [kind |-> "Connection error"])]

\* openSerialPort that applies the new settings before it closes the old
\* connection
openSerialPort_SettingsBeforeClose(w, p, devOk) ==
    LET w1 == [w EXCEPT !.m_serial.portName = p.name,
                        !.m_serial.baudRate = p.baudRate]
        w2 == closeSerialPort(w1)
        r  == SerialOpen(w2, devOk)
    IN  IF r.ok
        THEN [r.w EXCEPT
                !.ui = LogAppend(
                         [@ EXCEPT !.label_serial_val = p.name,
                                   !.button_send = TRUE],
                         [kind |-> "Connected to", name |-> p.name,
                          baudRate |-> p.baudRate])]
        ELSE [r.w EXCEPT
                !.ui = LogAppend(@, [kind |-> "Connection error"])]

\* openSerialPort without the close at its head
openSerialPort_NoCloseFirst(w, p, devOk) ==
    LET w2 == [w EXCEPT !.m_serial.portName = p.name,
                        !.m_serial.baudRate = p.baudRate]
        r  == SerialOpen(w2, devOk)
    IN  IF r.ok
        THEN [r.w EXCEPT
                !.ui = LogAppend(
                         [@ EXCEPT !.label_serial_val = p.name,
                                   !.button_send = TRUE],
                         [kind |-> "Connected to", name |-> p.name,
                          baudRate |-> p.baudRate])]
        ELSE [r.w EXCEPT
                !.ui = LogAppend(@, [kind |-> "Connection error"])]

\* StewartPlatform::openSerialPort with the dialog's settings p
openSerialPort(w, p, devOk) ==
    LET w1 == closeSerialPort(w)
        w2 == [w1 EXCEPT !.m_serial.portName = p.name,
                         !.m_serial.baudRate = p.baudRate]
        r  == SerialOpen(w2, devOk)
    IN  IF r.ok
        THEN [r.w EXCEPT
                !.ui = LogAppend(
                         [@ EXCEPT !.label_serial_val = p.name,
                                   !.button_send = TRUE],
                         [kind |-> "Connected to", name |-> p.name,
                          baudRate |-> p.baudRate])]
        ELSE [r.w EXCEPT
                !.ui = LogAppend(@, [kind |-> "Connection error"])]

\* ---------------------------------------------------------------------
\* Command encoder and write
\* ---------------------------------------------------------------------
\* separator with the comparison off by one: a space after every value
Separator_OffByOne(i) ==
    IF i < NUM_ACTUATORS THEN <<" ">> ELSE <<"\n">>

\* what follows the value of index i: a space, a newline after the last
Separator(i) ==
    IF i < NUM_ACTUATORS - 1 THEN <<" ">> ELSE <<"\n">>

\* the loop stopping one element early
RECURSIVE SendLoop_Short(_, _, _)
SendLoop_Short(actuator_pos, i, s) ==
    IF i < NUM_ACTUATORS - 1
    THEN SendLoop_Short(actuator_pos, i + 1,
                        s \o QStringNumber(actuator_pos[i + 1])
                          \o Separator(i + 1))
    ELSE s

\* the loop of sendActuatorPositions from index i on (0-based, as in the code)
RECURSIVE SendLoop(_, _, _)
SendLoop(actuator_pos, i, s) ==
    IF i < NUM_ACTUATORS
    THEN SendLoop(actuator_pos, i + 1,
                  s \o QStringNumber(actuator_pos[i + 1]) \o Separator(i))
    ELSE s

\* the text sendActuatorPositions builds for actuator_pos
CommandText(actuator_pos) == SendLoop(actuator_pos, 0, <<>>)

\* StewartPlatform::writeSerialData: the call as it reaches the serial
\* object, with the value of m_serial->isOpen() the assertion reads
writeSerialData(data, arg) ==
    [data |-> data, open |-> m_serial.isOpen, arg |-> arg]

\* StewartPlatform::sendActuatorPositions as a step.  Q_ASSERT(isOpen)
\* aborts a debug build; a release build compiles it out and the write on
\* the closed device is refused without a change of state.
sendActuatorPositions(actuator_pos) ==
    /\ wrote' = <<writeSerialData(qPrintable(CommandText(actuator_pos)),
                                  actuator_pos)>>
    /\ IF m_serial.isOpen
       THEN crashed' = FALSE
       ELSE crashed' \in BOOLEAN

\* ---------------------------------------------------------------------
\* Manual input bridge
\* ---------------------------------------------------------------------
\* a range whose maximum was never set
Clamp_NoUpper(x) ==
    IF x < MIN_ACTUATOR_VALUE THEN MIN_ACTUATOR_VALUE ELSE x

\* the range both widgets of a channel are given (setMinimum, setMaximum)
Clamp(x) ==
    IF x < MIN_ACTUATOR_VALUE THEN MIN_ACTUATOR_VALUE
    ELSE IF x > MAX_ACTUATOR_VALUE THEN MAX_ACTUATOR_VALUE ELSE x

\* the widgets of the manual bridge and the vector they feed; emitted
\* counts the valueChanged signals of one cascade
Widgets == [field |-> field, slider |-> slider,
            actuator_positions |-> actuator_positions,
            emitted |-> 0]

RECURSIVE FieldSetValue(_, _, _)
RECURSIVE SliderSetValue(_, _, _)

\* a field that emits valueChanged also when its value stays the same
FieldSetValue_AlwaysEmits(wd, i, x) ==
    LET v == Clamp(x)
    IN  SliderSetValue([wd EXCEPT !.field[i] = v, !.emitted = @ + 1], i, v)

\* a field whose valueChanged is not connected to the slider
FieldSetValue_NoForward(wd, i, x) ==
    LET v == Clamp(x)
    IN  IF wd.field[i] = v THEN wd
        ELSE [wd EXCEPT !.field[i] = v, !.emitted = @ + 1]

\* QSpinBox::setValue with valueChanged connected to QSlider::setValue
FieldSetValue(wd, i, x) ==
    LET v == Clamp(x)
    IN  IF wd.field[i] = v THEN wd
        ELSE SliderSetValue([wd EXCEPT !.field[i] = v,
                                       !.emitted = @ + 1], i, v)

\* QSlider::setValue with valueChanged connected to QSpinBox::setValue and
\* to the lambda that stores the value in actuator_positions[i]
SliderSetValue(wd, i, x) ==
    LET v == Clamp(x)
    IN  IF wd.slider[i] = v THEN wd
        ELSE LET w1 == FieldSetValue([wd EXCEPT !.slider[i] = v,
                                                !.emitted = @ + 1], i, v)
             IN  [w1 EXCEPT !.actuator_positions[i] = v]

NoArg == [i |-> 0, x |-> 0, emitted |-> 0]

\* ---------------------------------------------------------------------
\* Initial state: the object after the constructor
\* ---------------------------------------------------------------------
Init ==
    /\ m_serial = [isOpen |-> FALSE, portName |-> "", baudRate |-> 0]
    /\ ui = [label_serial_val |-> "Disconnected",
             label_leap_val |-> "Disconnected",
             button_send |-> FALSE,
             actuatorBox |-> TRUE,
             enable_leap_motion |-> FALSE,
             log |-> <<>>]
    /\ field = [i \in Channels |-> 0]
    /\ slider = [i \in Channels |-> 0]
    /\ actuator_positions = [i \in Channels |-> 0]
    /\ is_leap_enabled = FALSE
    /\ crashed = FALSE
    /\ ui_alive = TRUE
    /\ serial_alive = TRUE
    /\ uaf = FALSE
    /\ wrote = <<>>
    /\ lastEvent = "constructed"
    /\ lastArg = NoArg
    /\ preOpen = FALSE

\* bookkeeping common to all handlers of the living object: a slot runs
\* only while the window exists, and leaves the objects in place
HandledWith(name, arg) ==
    /\ ui_alive /\ serial_alive
    /\ lastEvent' = name
    /\ lastArg' = arg
    /\ preOpen' = m_serial.isOpen
    /\ UNCHANGED <<ui_alive, serial_alive, uaf>>

Handled(name) == HandledWith(name, NoArg)

\* ---------------------------------------------------------------------
\* Handlers
\* ---------------------------------------------------------------------
\* SerialSettingsDialog::SettingsUpdated -> openSerialPort
SettingsUpdated(p, devOk) ==
    /\ ~crashed
    /\ LET w == openSerialPort(World, p, devOk)
       IN  /\ Len(w.ui.log) <= MaxLog
           /\ m_serial' = w.m_serial
           /\ ui' = w.ui
    /\ wrote' = <<>>
    /\ Handled(IF devOk THEN "open_ok" ELSE "open_failed")
    /\ UNCHANGED <<field, slider, actuator_positions, is_leap_enabled, crashed>>

\* QSerialPort::errorOccurred -> closeSerialPort
ErrorOccurred ==
    /\ ~crashed
    /\ LET w == closeSerialPort(World)
       IN  /\ Len(w.ui.log) <= MaxLog
           /\ m_serial' = w.m_serial
           /\ ui' = w.ui
    /\ wrote' = <<>>
    /\ Handled("error")
    /\ UNCHANGED <<field, slider, actuator_positions, is_leap_enabled, crashed>>

\* QSerialPort::readyRead -> readSerialData; the port signals data only
\* while it is open
ReadyRead ==
    /\ ~crashed
    /\ m_serial.isOpen
    /\ Len(ui.log) < MaxLog
    /\ ui' = LogAppend(ui, [kind |-> "data"])
    /\ wrote' = <<>>
    /\ Handled("read")
    /\ UNCHANGED <<m_serial, field, slider, actuator_positions,
                   is_leap_enabled, crashed>>

\* button_send clicked (only an enabled button emits clicked)
SendClicked ==
    /\ ~crashed
    /\ ui.button_send
    /\ sendActuatorPositions(actuator_positions)
    /\ Handled("send")
    /\ UNCHANGED <<m_serial, ui, field, slider, actuator_positions,
                   is_leap_enabled>>

\* enableLeapMotion that hands the device the negated flag
enableLeapMotion_FlagInverted(c) ==
    /\ ui' = [ui EXCEPT !.actuatorBox = ~c, !.enable_leap_motion = c]
    /\ is_leap_enabled' = ~c

\* enableLeapMotion that enables the actuator box together with Leap
enableLeapMotion_BoxNotNegated(c) ==
    /\ ui' = [ui EXCEPT !.actuatorBox = c, !.enable_leap_motion = c]
    /\ is_leap_enabled' = c

\* StewartPlatform::enableLeapMotion
enableLeapMotion(c) ==
    /\ ui' = [ui EXCEPT !.actuatorBox = ~c, !.enable_leap_motion = c]
    /\ is_leap_enabled' = c

\* enable_leap_motion toggled by the operator
LeapToggled ==
    /\ ~crashed
    /\ enableLeapMotion(~ui.enable_leap_motion)
    /\ wrote' = <<>>
    /\ Handled("leap_toggle")
    /\ UNCHANGED <<m_serial, field, slider, actuator_positions, crashed>>

\* LeapEventListener: a frame of the device is emitted as LeapFrameUpdate
\* only while is_leap_enabled is set
LeapEmitsFrame == is_leap_enabled

\* a frame that is also stored in actuator_positions
LeapFrame_Caches(frame) ==
    /\ ~crashed
    /\ IF LeapEmitsFrame
       THEN sendActuatorPositions(frame) /\ actuator_positions' = frame
       ELSE wrote' = <<>> /\ UNCHANGED <<crashed, actuator_positions>>
    /\ Handled("leap_frame")
    /\ UNCHANGED <<m_serial, ui, field, slider, is_leap_enabled>>

\* a frame of the Leap device; LeapFrameUpdate -> sendActuatorPositions
LeapFrame(frame) ==
    /\ ~crashed
    /\ IF LeapEmitsFrame
       THEN sendActuatorPositions(frame)
       ELSE wrote' = <<>> /\ UNCHANGED crashed
    /\ Handled("leap_frame")
    /\ UNCHANGED <<m_serial, ui, field, slider, actuator_positions,
                   is_leap_enabled>>

\* LeapEventListener::LeapConnected -> onLeapConnected
onLeapConnected(connected) ==
    /\ ~crashed
    /\ Len(ui.log) < MaxLog
    /\ ui' = LogAppend(
               [ui EXCEPT !.label_leap_val =
                    IF connected THEN "Connected" ELSE "Disconnected"],
               [kind |-> IF connected THEN "LEAP Connected"
                                      ELSE "LEAP Disconnected"])
    /\ wrote' = <<>>
    /\ Handled("leap_connected")
    /\ UNCHANGED <<m_serial, field, slider, actuator_positions,
                   is_leap_enabled, crashed>>

\* the operator edits the numeric field of channel i (the widgets inside a
\* disabled actuatorBox take no input)
FieldEdited(i, x) ==
    /\ ~crashed
    /\ ui.actuatorBox
    /\ LET wd == FieldSetValue(Widgets, i, x)
       IN  /\ field' = wd.field
           /\ slider' = wd.slider
           /\ actuator_positions' = wd.actuator_positions
    /\ wrote' = <<>>
    /\ HandledWith("field",
                   [i |-> i, x |-> x,
                    emitted |-> FieldSetValue(Widgets, i, x).emitted])
    /\ UNCHANGED <<m_serial, ui, is_leap_enabled, crashed>>

\* the operator moves the slider of channel i
SliderMoved(i, x) ==
    /\ ~crashed
    /\ ui.actuatorBox
    /\ LET wd == SliderSetValue(Widgets, i, x)
       IN  /\ field' = wd.field
           /\ slider' = wd.slider
           /\ actuator_positions' = wd.actuator_positions
    /\ wrote' = <<>>
    /\ HandledWith("slider",
                   [i |-> i, x |-> x,
                    emitted |-> SliderSetValue(Widgets, i, x).emitted])
    /\ UNCHANGED <<m_serial, ui, is_leap_enabled, crashed>>

Next ==
    \/ \E p \in SettingsSet, devOk \in BOOLEAN : SettingsUpdated(p, devOk)
    \/ ErrorOccurred
    \/ ReadyRead
    \/ SendClicked
    \/ LeapToggled
    \/ \E frame \in LeapFrames : LeapFrame(frame)
    \/ \E c \in BOOLEAN : onLeapConnected(c)
    \/ \E i \in ManualChannels, x \in ManualValues : FieldEdited(i, x)
    \/ \E i \in ManualChannels, x \in ManualValues : SliderMoved(i, x)

Spec == Init /\ [][Next]_vars

\* ---------------------------------------------------------------------
\* Teardown
\* ---------------------------------------------------------------------
\* StewartPlatform::~StewartPlatform: delete ui, delete m_settings,
\* closeSerialPort(), delete m_serial, delete leap.  closeSerialPort runs
\* after delete ui: with the port open it closes the handle and then goes
\* through the deleted ui for the log, the status label and the send
\* button.  That access is undefined: either the freed object still holds
\* the widget pointers and the updates take place, or the process dies
\* there, with the handle closed and m_serial never deleted.

\* a destructor that deletes m_serial without closeSerialPort()
Destructor_NoClose ==
    /\ ~crashed
    /\ ui_alive /\ serial_alive
    /\ ui_alive' = FALSE
    /\ serial_alive' = FALSE
    /\ wrote' = <<>>
    /\ lastEvent' = "destructor"
    /\ lastArg' = NoArg
    /\ preOpen' = m_serial.isOpen
    /\ UNCHANGED <<m_serial, ui, uaf, crashed, field, slider,
                   actuator_positions, is_leap_enabled>>

Destructor ==
    /\ ~crashed
    /\ ui_alive /\ serial_alive
    /\ ui_alive' = FALSE
    /\ LET w       == closeSerialPort(World)
           touched == w.ui # ui
       IN  /\ m_serial' = w.m_serial
           /\ uaf' = (uaf \/ touched)
           /\ IF touched
              THEN \/ /\ ui' = w.ui
                      /\ crashed' = FALSE
                      /\ serial_alive' = FALSE
                   \/ /\ ui' = ui
                      /\ crashed' = TRUE
                      /\ serial_alive' = TRUE
              ELSE /\ ui' = ui
                   /\ crashed' = FALSE
                   /\ serial_alive' = FALSE
    /\ wrote' = <<>>
    /\ lastEvent' = "destructor"
    /\ lastArg' = NoArg
    /\ preOpen' = m_serial.isOpen
    /\ UNCHANGED <<field, slider, actuator_positions, is_leap_enabled>>

\* the life of the window up to and including its destruction
NextTeardown ==
    \/ Next
    \/ Destructor

SpecTeardown == Init /\ [][NextTeardown]_vars

\* ---------------------------------------------------------------------
\* Manual bridge specification: the operator works all six field/slider
\* pairs.  A value beyond an end of the range stands for pushing a widget
\* past its limit; the widget stops at the limit.
\* ---------------------------------------------------------------------
ManualAttempts ==
    {MIN_ACTUATOR_VALUE - 1, 37, MAX_ACTUATOR_VALUE, MAX_ACTUATOR_VALUE + 1}

NextManual ==
    \/ \E i \in Channels, x \in ManualAttempts : FieldEdited(i, x)
    \/ \E i \in Channels, x \in ManualAttempts : SliderMoved(i, x)
    \/ LeapToggled
    \/ \E frame \in LeapFrames : LeapFrame(frame)

SpecManual == Init /\ [][NextManual]_vars

\* ---------------------------------------------------------------------
\* Encoder specification: the command encoder applied to many vectors.
\* It starts where a port is open and the Leap checkbox is checked, with a
\* vector the operator can have entered before, and then takes manual
\* sends and Leap frames whose values are drawn from EncValues.
\* ---------------------------------------------------------------------
EncValues == {-12, 7, 1025}
EncFrames == [Channels -> EncValues]
EncManual ==
    { [i \in Channels |-> 0],
      [i \in Channels |-> MAX_ACTUATOR_VALUE],
      [i \in Channels |-> IF i % 2 = 1 THEN MIN_ACTUATOR_VALUE
                                       ELSE MAX_ACTUATOR_VALUE] }

InitEncode ==
    /\ LET p == [name |-> "COM3", baudRate |-> 9600]
       IN /\ m_serial = [isOpen |-> TRUE, portName |-> p.name,
                         baudRate |-> p.baudRate]
          /\ ui = [label_serial_val |-> p.name,
                   label_leap_val |-> "Disconnected",
                   button_send |-> TRUE,
                   actuatorBox |-> FALSE,
                   enable_leap_motion |-> TRUE,
                   log |-> << [kind |-> "Connected to", name |-> p.name,
                               baudRate |-> p.baudRate] >>]
    /\ actuator_positions \in EncManual
    /\ field = actuator_positions
    /\ slider = actuator_positions
    /\ is_leap_enabled = TRUE
    /\ crashed = FALSE
    /\ ui_alive = TRUE
    /\ serial_alive = TRUE
    /\ uaf = FALSE
    /\ wrote = <<>>
    /\ lastArg = NoArg
    /\ lastEvent = "leap_toggle"
    /\ preOpen = TRUE

NextEncode ==
    \/ SendClicked
    \/ \E frame \in EncFrames : LeapFrame(frame)

SpecEncode == InitEncode /\ [][NextEncode]_vars

TypeOK ==
    /\ m_serial.isOpen \in BOOLEAN
    /\ ui.button_send \in BOOLEAN
    /\ Len(ui.log) <= MaxLog + 1
    /\ crashed \in BOOLEAN

\* ---------------------------------------------------------------------
\* Reading a command line back (used to state the wire format)
\* ---------------------------------------------------------------------
Last(sq) == sq[Len(sq)]
Front(sq) == SubSeq(sq, 1, Len(sq) - 1)

CountOf(sq, b) == Cardinality({k \in 1..Len(sq) : sq[k] = b})

\* the pieces of sq between the separators b
RECURSIVE SplitAt(_, _, _, _)
SplitAt(sq, b, k, cur) ==
    IF k > Len(sq) THEN <<cur>>
    ELSE IF sq[k] = b THEN <<cur>> \o SplitAt(sq, b, k + 1, <<>>)
         ELSE SplitAt(sq, b, k + 1, Append(cur, sq[k]))

IsDigitCode(b) == b \in 48..57

RECURSIVE DigitsValue(_, _)
DigitsValue(sq, acc) ==
    IF sq = <<>> THEN acc
    ELSE DigitsValue(Tail(sq), 10 * acc + (Head(sq) - 48))

\* a token is the canonical decimal text of the integer n
IsDecimalOf(tok, n) ==
    LET neg == tok # <<>> /\ tok[1] = 45
        dig == IF neg THEN Tail(tok) ELSE tok
    IN  /\ dig # <<>>
        /\ \A k \in 1..Len(dig) : IsDigitCode(dig[k])
        /\ Len(dig) > 1 => dig[1] # 48
        /\ neg => DigitsValue(dig, 0) # 0
        /\ n = (IF neg THEN 0 - DigitsValue(dig, 0) ELSE DigitsValue(dig, 0))

\* the integers of a command line, in order (0 for a piece that is no number)
LineValues(d) ==
    LET toks == SplitAt(Front(d), 32, 1, <<>>)
    IN  [k \in 1..Len(toks) |->
            LET tok == toks[k]
                neg == tok # <<>> /\ tok[1] = 45
                dig == IF neg THEN Tail(tok) ELSE tok
            IN  IF neg THEN 0 - DigitsValue(dig, 0) ELSE DigitsValue(dig, 0)]

\* d is v1 v2 v3 v4 v5 v6 newline for the six integers of v
IsCommandLineOf(d, v) ==
    /\ Len(d) > 0
    /\ Last(d) = 10
    /\ CountOf(d, 10) = 1
    /\ CountOf(d, 32) = NUM_ACTUATORS - 1
    /\ LET toks == SplitAt(Front(d), 32, 1, <<>>)
       IN  /\ Len(toks) = NUM_ACTUATORS
           /\ \A i \in 1..NUM_ACTUATORS : IsDecimalOf(toks[i], v[i])

LogLen == Len(ui.log)
IsOpenEvent(e) == e \in {"open_ok", "open_failed"}

\* ---------------------------------------------------------------------
\* Claims
\* ---------------------------------------------------------------------

\* C1: every call of writeSerialData happens while the port is open, so the
\* isOpen assertion in writeSerialData never fails.
C1_WriteOnlyWhileConnected ==
    /\ \A k \in 1..Len(wrote) : wrote[k].open
    /\ ~crashed

\* C2: the send button is enabled exactly while the port is open; it starts
\* disabled, only a successful open enables it, and every close and every
\* transport error leaves it disabled.
C2_SendEnabledIffConnected ==
    /\ [](ui.button_send <=> m_serial.isOpen)
    /\ [][ /\ (~ui.button_send /\ ui'.button_send) => lastEvent' = "open_ok"
           /\ lastEvent' = "error" => ~ui'.button_send ]_vars

C2_Witness ==
    /\ lastEvent = "error" /\ preOpen
    /\ ~ui.button_send /\ ~m_serial.isOpen

\* C3: a transport error while connected ends disconnected with the send
\* button disabled and nothing written or reopened; an error while already
\* disconnected changes nothing (no further log line, no status change).
C3_ErrorDisconnectsIdempotent ==
    [][ lastEvent' = "error" =>
          /\ ~m_serial'.isOpen
          /\ ~ui'.button_send
          /\ ui'.label_serial_val = "Disconnected"
          /\ wrote' = <<>>
          /\ m_serial.isOpen =>
               ui'.log = Append(ui.log, [kind |-> "Disconnected from",
                                         name |-> m_serial.portName])
          /\ ~m_serial.isOpen => UNCHANGED progVars ]_vars

C3_Witness ==
    /\ lastEvent = "error" /\ ~preOpen
    /\ ~m_serial.isOpen /\ ~ui.button_send
    /\ LogLen > 0 /\ Last(ui.log).kind = "Disconnected from"

\* C4: after an open whose port open fails the port is closed, the send
\* button disabled and the status reads Disconnected, whether or not a
\* port was open before; the log gains one connection-error line (after
\* the disconnect line of a port that was open) and no 'Connected to' line.
C4_FailedOpenLeavesDisconnected ==
    [][ lastEvent' = "open_failed" =>
          /\ ~m_serial'.isOpen
          /\ ~ui'.button_send
          /\ ui'.label_serial_val = "Disconnected"
          /\ ui'.log =
               (IF m_serial.isOpen
                THEN Append(ui.log, [kind |-> "Disconnected from",
                                     name |-> m_serial.portName])
                ELSE ui.log)
               \o << [kind |-> "Connection error"] >> ]_vars

C4_Witness ==
    /\ lastEvent = "open_failed" /\ preOpen
    /\ ~m_serial.isOpen /\ ui.label_serial_val = "Disconnected"
    /\ Last(ui.log).kind = "Connection error"

\* C5: an open while connected first closes the old connection completely
\* (the disconnect is logged under the old port's name before anything of
\* the new attempt), then applies the new settings and opens; on success
\* the port is open with the new settings and the status shows its name.
C5_ReopenClosesFirst ==
    [][ (IsOpenEvent(lastEvent') /\ m_serial.isOpen) =>
          /\ Len(ui'.log) = LogLen + 2
          /\ SubSeq(ui'.log, 1, LogLen + 1) =
               Append(ui.log, [kind |-> "Disconnected from",
                               name |-> m_serial.portName])
          /\ lastEvent' = "open_ok" =>
               /\ m_serial'.isOpen
               /\ ui'.button_send
               /\ \E p \in SettingsSet :
                    /\ m_serial' = [isOpen |-> TRUE, portName |-> p.name,
                                    baudRate |-> p.baudRate]
                    /\ ui'.label_serial_val = p.name
                    /\ Last(ui'.log) = [kind |-> "Connected to",
                                        name |-> p.name,
                                        baudRate |-> p.baudRate] ]_vars

C5_Witness ==
    /\ lastEvent = "open_ok" /\ preOpen /\ m_serial.isOpen
    /\ LogLen >= 3
    /\ ui.log[LogLen - 1].kind = "Disconnected from"
    /\ ui.log[LogLen - 1].name # m_serial.portName
    /\ ui.log[LogLen - 2].kind = "Connected to"
    /\ ui.log[LogLen - 2].name = ui.log[LogLen - 1].name

\* C6: a successful open followed immediately by a close leaves the port
\* closed and the send button disabled, from any state before the open.
C6_OpenThenClose ==
    [][ (lastEvent = "open_ok" /\ lastEvent' = "error") =>
          /\ m_serial.isOpen
          /\ ~m_serial'.isOpen
          /\ ~ui'.button_send ]_vars

C6_Witness ==
    /\ lastEvent = "error" /\ preOpen
    /\ LogLen >= 2
    /\ ui.log[LogLen - 1].kind = "Connected to"
    /\ Last(ui.log) = [kind |-> "Disconnected from",
                       name |-> ui.log[LogLen - 1].name]
    /\ ~m_serial.isOpen /\ ~ui.button_send

\* C7: closeSerialPort called while the port is closed is a no-op: the
\* connection state, status label, send button, log, actuator_positions and
\* the Leap flag stay as they are (also for the close at the head of an
\* open, which then logs only the outcome of the open).
C7_CloseWhileDisconnectedNoOp ==
    [][ ~m_serial.isOpen =>
          /\ lastEvent' = "error" => (UNCHANGED progVars /\ wrote' = <<>>)
          /\ IsOpenEvent(lastEvent') =>
               /\ Len(ui'.log) = LogLen + 1
               /\ SubSeq(ui'.log, 1, LogLen) = ui.log
               /\ Last(ui'.log).kind # "Disconnected from" ]_vars

C7_Witness ==
    /\ lastEvent = "error" /\ ~preOpen
    /\ ~m_serial.isOpen
    /\ ui.enable_leap_motion
    /\ actuator_positions[1] = MAX_ACTUATOR_VALUE

\* C8: the bytes handed to the serial write are the six decimal renderings
\* in index order, single spaces between them, none after the sixth, then
\* exactly one newline and nothing else.
C8_CommandLineFormat ==
    \A k \in 1..Len(wrote) : IsCommandLineOf(wrote[k].data, wrote[k].arg)

C8_Witness ==
    /\ Len(wrote) = 1
    /\ wrote[1].arg = <<-12, 7, 1025, 7, -12, 1025>>
    /\ wrote[1].data = <<45, 49, 50, 32, 55, 32, 49, 48, 50, 53, 32, 55, 32,
                         45, 49, 50, 32, 49, 48, 50, 53, 10>>

\* C9: a Leap frame leads to a write only if the Leap checkbox is checked
\* at the time of the frame; while it is unchecked no frame is written.
C9_LeapFrameOnlyWhenEnabled ==
    lastEvent = "leap_frame" =>
        /\ wrote # <<>> => ui.enable_leap_motion
        /\ ~ui.enable_leap_motion => wrote = <<>>
        /\ ui.enable_leap_motion => Len(wrote) = 1

C9_Witness ==
    /\ lastEvent = "leap_frame"
    /\ ui.enable_leap_motion
    /\ Len(wrote) = 1 /\ wrote[1].open

\* C10: every integer of every command line written to the open port lies
\* within MIN_ACTUATOR_VALUE..MAX_ACTUATOR_VALUE, for manual sends and for
\* Leap frames alike.
C10_WrittenValuesInRange ==
    \A k \in 1..Len(wrote) :
        wrote[k].open =>
            \A i \in 1..NUM_ACTUATORS :
                LineValues(wrote[k].data)[i]
                    \in MIN_ACTUATOR_VALUE..MAX_ACTUATOR_VALUE

IsManualEvent(e) == e \in {"field", "slider"}
InRange(x) == x \in MIN_ACTUATOR_VALUE..MAX_ACTUATOR_VALUE

\* C11: in every reachable state actuator_positions has exactly
\* NUM_ACTUATORS elements and each lies within
\* MIN_ACTUATOR_VALUE..MAX_ACTUATOR_VALUE.
C11_VectorInRange ==
    /\ DOMAIN actuator_positions = 1..NUM_ACTUATORS
    /\ Len(actuator_positions) = 6
    /\ \A i \in DOMAIN actuator_positions : InRange(actuator_positions[i])

C11_Witness ==
    /\ IsManualEvent(lastEvent)
    /\ lastArg.x = MAX_ACTUATOR_VALUE + 1
    /\ actuator_positions[lastArg.i] = MAX_ACTUATOR_VALUE
    /\ \E j \in Channels : actuator_positions[j] = 37

\* C12: setting the field or the slider of a channel to a value X of the
\* range ends with both widgets of the channel showing X and
\* actuator_positions holding X at that channel; the other five channels
\* keep their widget values and vector entries.
C12_ManualSetSyncsChannel ==
    /\ [](IsManualEvent(lastEvent) /\ InRange(lastArg.x) =>
            /\ field[lastArg.i] = lastArg.x
            /\ slider[lastArg.i] = lastArg.x
            /\ actuator_positions[lastArg.i] = lastArg.x)
    /\ [][IsManualEvent(lastEvent') =>
            \A j \in Channels \ {lastArg'.i} :
                /\ field'[j] = field[j]
                /\ slider'[j] = slider[j]
                /\ actuator_positions'[j] = actuator_positions[j]]_vars

C12_Witness ==
    /\ lastEvent = "field"
    /\ lastArg = [i |-> 4, x |-> 37, emitted |-> 2]
    /\ field[4] = 37 /\ slider[4] = 37 /\ actuator_positions[4] = 37
    /\ actuator_positions[2] = MAX_ACTUATOR_VALUE

\* C13: checking the Leap box disables the manual widgets (no manual event
\* changes the vector while it is checked) and sets the device's flag, so
\* frames are forwarded; unchecking it reverses both exactly.  In every
\* state the actuator box is enabled iff the box is unchecked and the
\* device's flag equals the box.
C13_LeapToggleGatesManual ==
    /\ [](/\ ui.actuatorBox = ~ui.enable_leap_motion
          /\ is_leap_enabled = ui.enable_leap_motion
          /\ lastEvent = "leap_frame" =>
                (wrote # <<>> <=> ui.enable_leap_motion))
    /\ [][/\ lastEvent' = "leap_toggle" =>
                /\ ui' = [ui EXCEPT !.actuatorBox = ~@,
                                    !.enable_leap_motion = ~@]
                /\ is_leap_enabled' = ~is_leap_enabled
          /\ ui.enable_leap_motion =>
                /\ ~IsManualEvent(lastEvent')
                /\ UNCHANGED <<field, slider, actuator_positions>>]_vars

C13_Witness ==
    /\ lastEvent = "leap_toggle"
    /\ ~ui.enable_leap_motion /\ ~is_leap_enabled /\ ui.actuatorBox
    /\ actuator_positions[1] = MAX_ACTUATOR_VALUE

\* C14: the destructor, from any state of the living object, leaves the
\* port closed: the handle is closed before the serial object is deleted
\* and before the process ends.
C14_TeardownClosesPort ==
    /\ ~ui_alive => ~m_serial.isOpen
    /\ ~serial_alive => ~m_serial.isOpen
    /\ lastEvent = "destructor" => (~ui_alive /\ (serial_alive <=> crashed))

C14_Witness ==
    /\ lastEvent = "destructor" /\ preOpen
    /\ ~serial_alive /\ ~crashed
    /\ ~m_serial.isOpen

\* C15: the serial status label shows the port name of the connection
\* while the port is open and "Disconnected" while it is closed.
C15_StatusShowsConnection ==
    ui.label_serial_val =
        (IF m_serial.isOpen THEN m_serial.portName ELSE "Disconnected")

C15_Witness ==
    /\ lastEvent = "open_ok" /\ preOpen
    /\ m_serial.isOpen /\ m_serial.portName = "COM4"
    /\ ui.label_serial_val = "COM4"
    /\ ui.log[1].kind = "Connected to" /\ ui.log[1].name = "COM3"

\* C16: a Leap frame leaves actuator_positions (and the widgets) as they
\* are; a manual send transmits the values last set through the
\* field/slider pairs, whatever frames came before.
C16_LeapFrameNotCached ==
    /\ [](lastEvent = "send" =>
            /\ Len(wrote) = 1
            /\ wrote[1].arg = slider
            /\ slider = field
            /\ LineValues(wrote[1].data) = slider)
    /\ [][lastEvent' = "leap_frame" =>
            UNCHANGED <<actuator_positions, field, slider>>]_vars

C16_Witness ==
    /\ lastEvent = "leap_frame"
    /\ Len(wrote) = 1 /\ wrote[1].open
    /\ wrote[1].arg # actuator_positions
    /\ actuator_positions[1] = MAX_ACTUATOR_VALUE
    /\ slider = actuator_positions

\* C17: a click on the send button while connected makes exactly one
\* write, of the whole command line of actuator_positions as it is at the
\* click, and leaves actuator_positions, the connection and the Leap flag
\* unchanged.
C17_SendWritesOneWholeLine ==
    /\ [](lastEvent = "send" =>
            /\ preOpen /\ m_serial.isOpen
            /\ Len(wrote) = 1
            /\ wrote[1].open
            /\ IsCommandLineOf(wrote[1].data, actuator_positions))
    /\ [][lastEvent' = "send" =>
            UNCHANGED <<actuator_positions, m_serial, ui,
                        is_leap_enabled>>]_vars

C17_Witness ==
    /\ lastEvent = "send"
    /\ actuator_positions[NUM_ACTUATORS] = MAX_ACTUATOR_VALUE
    /\ Len(wrote) = 1 /\ wrote[1].open
    /\ wrote[1].data = <<48, 32, 48, 32, 48, 32, 48, 32, 48, 32,
                         49, 48, 50, 52, 10>>

\* C18: every log append and every update of the status label or the send
\* button goes through ui while ui exists; the destructor never goes
\* through ui after deleting it.
C18_UiUsedOnlyWhileAlive ==
    ~uaf

\* the 'Connected to' and 'Disconnected from' entries of the log, in order
ConnLog ==
    SelectSeq(ui.log,
              LAMBDA e : e.kind \in {"Connected to", "Disconnected from"})

\* C19: the 'Connected to P' and 'Disconnected from P' entries alternate,
\* starting with a connect entry, and each disconnect entry names the port
\* of the connect entry right before it.
C19_ConnectDisconnectAlternate ==
    /\ \A k \in 1..Len(ConnLog) :
          IF k % 2 = 1
          THEN ConnLog[k].kind = "Connected to"
          ELSE /\ ConnLog[k].kind = "Disconnected from"
               /\ ConnLog[k].name = ConnLog[k - 1].name
    /\ m_serial.isOpen <=> Len(ConnLog) % 2 = 1

C19_Witness ==
    ui.log = << [kind |-> "Connected to", name |-> "COM3", baudRate |-> 9600],
                [kind |-> "Disconnected from", name |-> "COM3"],
                [kind |-> "Connection error"],
                [kind |-> "Connected to", name |-> "COM4",
                 baudRate |-> 115200] >>

\* C20: one change of a widget of a channel sets off a finite cascade of
\* valueChanged signals: each of the two widgets changes at most once (a
\* widget set to the value it has emits nothing), and at the end field,
\* slider and actuator_positions agree at that channel.
C20_CascadeTerminates ==
    /\ [](IsManualEvent(lastEvent) =>
            /\ lastArg.emitted \in {0, 2}
            /\ lastArg.emitted > 0 =>
                 /\ field[lastArg.i] = slider[lastArg.i]
                 /\ slider[lastArg.i] = actuator_positions[lastArg.i])
    /\ [][IsManualEvent(lastEvent') =>
            LET i == lastArg'.i
            IN  /\ lastArg'.emitted = 0 =>
                     UNCHANGED <<field, slider, actuator_positions>>
                /\ lastArg'.emitted = 2 =>
                     /\ field'[i] # field[i]
                     /\ slider'[i] # slider[i] ]_vars

C20_Witness ==
    /\ lastEvent = "slider"
    /\ lastArg = [i |-> 3, x |-> MAX_ACTUATOR_VALUE + 1, emitted |-> 2]
    /\ field[3] = MAX_ACTUATOR_VALUE
    /\ slider[3] = MAX_ACTUATOR_VALUE
    /\ actuator_positions[3] = MAX_ACTUATOR_VALUE
====
